---- MODULE Spec2Model ----
(***************************************************************************)
(* Model of account_move_template/models/account_move_template.py:        *)
(* the lines of one journal entry template (create / write with their     *)
(* constraints) and AccountMoveTemplate.compute_lines, stepped through    *)
(* its two loops.                                                          *)
(*                                                                         *)
(* Amounts are integers counted in thousandths of the currency unit, so   *)
(* the currency rounding 0.01 is the increment 10.  A formula             *)
(* (python_code) is abstracted to its kind and the set of line sequences  *)
(* it names plus one literal: "L1+L2+0.004" is                            *)
(* [kind |-> "expr", refs |-> {1, 2}, lit |-> 4] and its value is the sum *)
(* of the amounts bound to those names and of the literal.                 *)
(***************************************************************************)
EXTENDS Integers, FiniteSets, Sequences, TLC

\* ---- bounds ----
MaxSeq == 2

Seqs == 1..MaxSeq
Amounts == {-15, 4}

\* ---- python_code values ----
Literals == {0, 4}
NoCode == [kind |-> "absent", refs |-> {}, lit |-> 0]
EmptyCode == [kind |-> "empty", refs |-> {}, lit |-> 0]
BadCodes == {[kind |-> "bad", refs |-> R, lit |-> 0] : R \in {{}, {1}}}
ExprCodes == {[kind |-> "expr", refs |-> R, lit |-> k] : R \in SUBSET Seqs, k \in Literals}
PythonCodes == {NoCode, EmptyCode} \cup BadCodes \cup ExprCodes
\* the python_code values tried on input lines, which never read it
InputCodes == {NoCode, [kind |-> "expr", refs |-> {}, lit |-> 0]}
CodesFor(type) == IF type = "input" THEN InputCodes ELSE PythonCodes

LineTypes == {"input", "computed"}

NoError == [kind |-> "none", sequence |-> 0, python_code |-> NoCode]

EmptyMap == [s \in {} |-> 0]
Put(m, k, v) == [x \in (DOMAIN m) \cup {k} |-> IF x = k THEN v ELSE m[x]]
Pop(m, k) == [x \in (DOMAIN m) \ {k} |-> m[x]]

VARIABLES lines, pc, i, sequence2amount, input_sequence2amount,
          knownAmounts, raised, returned

vars == <<lines, pc, i, sequence2amount, input_sequence2amount,
          knownAmounts, raised, returned>>

runVars == <<i, sequence2amount, input_sequence2amount, knownAmounts, returned>>

\* ---- helpers ----
Min(S) == CHOOSE m \in S : \A x \in S : m <= x
Max(S) == CHOOSE m \in S : \A x \in S : m >= x

RECURSIVE SortAsc(_)
SortAsc(S) == IF S = {} THEN <<>> ELSE <<Min(S)>> \o SortAsc(S \ {Min(S)})

RECURSIVE SortDesc(_)
SortDesc(S) == IF S = {} THEN <<>> ELSE <<Max(S)>> \o SortDesc(S \ {Max(S)})

RECURSIVE SumOver(_, _)
SumOver(m, R) ==
    IF R = {} THEN 0
    ELSE LET r == CHOOSE x \in R : TRUE IN m[r] + SumOver(m, R \ {r})

Abs(v) == IF v < 0 THEN 0 - v ELSE v

\* the lines of the template in _order = "sequence, id"
line_ids_desc(ls) == SortDesc(DOMAIN ls)
line_ids(ls) == SortAsc(DOMAIN ls)

filtered(ls, t) == SelectSeq(line_ids(ls), LAMBDA s : ls[s].type = t)

\* currency rounding of the template's company (0.01)
prec == 10

\* odoo.tools.float_round, default HALF-UP: to the nearest multiple of the
\* increment, a tie going away from zero
float_round_none(v, p) == v
float_round(v, p) ==
    LET q == ((2 * Abs(v)) + p) \div (2 * p)
    IN IF v < 0 THEN 0 - (q * p) ELSE q * p

\* the names L<seq> bound for the evaluation: one per key of the mapping
safe_eval_dict(s2a) == s2a

\* safe_eval: the text is compiled first (SyntaxError), then evaluated; a
\* name that is not bound is reported as ValueError
safe_eval(code, ctx) ==
    IF code.kind # "expr" THEN [status |-> "SyntaxError", val |-> 0]
    ELSE IF ~(code.refs \subseteq DOMAIN ctx) THEN [status |-> "ValueError", val |-> 0]
    ELSE [status |-> "ok", val |-> SumOver(ctx, code.refs) + code.lit]

\* @api.constrains("type", "python_code"): TRUE when the line is refused
check_python_code_none_only(type, code) == type = "computed" /\ code.kind = "absent"
check_python_code(type, code) ==
    type = "computed" /\ code.kind \in {"absent", "empty"}

\* unique(template_id, sequence)
sequence_template_uniq(ls, seq) == seq \notin DOMAIN ls

Init ==
    /\ lines = EmptyMap
    /\ pc = "idle"
    /\ i = 1
    /\ sequence2amount = EmptyMap
    /\ input_sequence2amount = EmptyMap
    /\ knownAmounts = EmptyMap
    /\ raised = NoError
    /\ returned = "none"

\* ---- saving lines ----
CreateLine ==
    \E seq \in Seqs, type \in LineTypes : \E code \in CodesFor(type) :
        /\ pc = "idle"
        /\ sequence_template_uniq(lines, seq)
        /\ UNCHANGED <<pc, runVars>>
        /\ IF check_python_code(type, code)
           THEN /\ raised' = [kind |-> "MissingFormula", sequence |-> 0,
                              python_code |-> NoCode]
                /\ UNCHANGED lines
           ELSE /\ raised' = NoError
                /\ lines' = Put(lines, seq, [type |-> type, python_code |-> code])

\* write({"sequence": seq}): neither constrained field is written, so
\* check_python_code does not run
WriteSequence ==
    \E old \in DOMAIN lines, seq \in Seqs :
        /\ pc = "idle"
        /\ seq # old
        /\ sequence_template_uniq(lines, seq)
        /\ raised' = NoError
        /\ lines' = Put(Pop(lines, old), seq, lines[old])
        /\ UNCHANGED <<pc, runVars>>

\* write({"type": type, "python_code": code})
WriteLine ==
    \E seq \in DOMAIN lines, type \in LineTypes : \E code \in CodesFor(type) :
        /\ pc = "idle"
        /\ [type |-> type, python_code |-> code] # lines[seq]
        /\ UNCHANGED <<pc, runVars>>
        /\ IF check_python_code(type, code)
           THEN /\ raised' = [kind |-> "MissingFormula", sequence |-> 0,
                              python_code |-> NoCode]
                /\ UNCHANGED lines
           ELSE /\ raised' = NoError
                /\ lines' = Put(lines, seq, [type |-> type, python_code |-> code])

\* ---- compute_lines ----
Call ==
    \E D \in SUBSET Seqs : \E known \in [D -> Amounts] :
        /\ pc = "idle"
        /\ knownAmounts' = known
        /\ sequence2amount' = known
        /\ input_sequence2amount' = known
        /\ i' = 1
        /\ pc' = "reconcile"
        /\ raised' = NoError
        /\ returned' = "none"
        /\ UNCHANGED lines

ReconcileStepInPlace ==
    /\ pc = "reconcile"
    /\ i <= Len(filtered(lines, "input"))
    /\ LET seq == filtered(lines, "input")[i] IN
        IF seq \notin DOMAIN sequence2amount
        THEN /\ pc' = "failed"
             /\ raised' = [kind |-> "MissingInputLine", sequence |-> 0,
                           python_code |-> NoCode]
             /\ UNCHANGED <<i, sequence2amount, input_sequence2amount>>
        ELSE /\ input_sequence2amount' = Pop(input_sequence2amount, seq)
             /\ sequence2amount' = Pop(sequence2amount, seq)
             /\ i' = i + 1
             /\ UNCHANGED <<pc, raised>>
    /\ UNCHANGED <<lines, knownAmounts, returned>>

ReconcileStepTolerant ==
    /\ pc = "reconcile"
    /\ i <= Len(filtered(lines, "input"))
    /\ LET seq == filtered(lines, "input")[i] IN
        /\ input_sequence2amount' = Pop(input_sequence2amount, seq)
        /\ i' = i + 1
        /\ UNCHANGED <<pc, raised, sequence2amount>>
    /\ UNCHANGED <<lines, knownAmounts, returned>>

ReconcileStep ==
    /\ pc = "reconcile"
    /\ i <= Len(filtered(lines, "input"))
    /\ LET seq == filtered(lines, "input")[i] IN
        IF seq \notin DOMAIN sequence2amount
        THEN /\ pc' = "failed"
             /\ raised' = [kind |-> "MissingInputLine", sequence |-> 0,
                           python_code |-> NoCode]
             /\ UNCHANGED <<i, sequence2amount, input_sequence2amount>>
        ELSE /\ input_sequence2amount' = Pop(input_sequence2amount, seq)
             /\ i' = i + 1
             /\ UNCHANGED <<pc, raised, sequence2amount>>
    /\ UNCHANGED <<lines, knownAmounts, returned>>

CheckExtraneousNever ==
    /\ pc = "reconcile"
    /\ i > Len(filtered(lines, "input"))
    /\ pc' = "eval"
    /\ i' = 1
    /\ UNCHANGED <<raised, lines, sequence2amount, input_sequence2amount,
                   knownAmounts, returned>>

CheckExtraneous ==
    /\ pc = "reconcile"
    /\ i > Len(filtered(lines, "input"))
    /\ IF input_sequence2amount # EmptyMap
       THEN /\ pc' = "failed"
            /\ raised' = [kind |-> "ExtraneousInputLine", sequence |-> 0,
                          python_code |-> NoCode]
            /\ UNCHANGED i
       ELSE /\ pc' = "eval"
            /\ i' = 1
            /\ UNCHANGED raised
    /\ UNCHANGED <<lines, sequence2amount, input_sequence2amount,
                   knownAmounts, returned>>

EvalStepRoundAll ==
    /\ pc = "eval"
    /\ i <= Len(filtered(lines, "computed"))
    /\ LET seq == filtered(lines, "computed")[i]
           code == lines[seq].python_code
           res == safe_eval(code, safe_eval_dict(sequence2amount))
       IN IF res.status = "ok"
          THEN /\ sequence2amount' =
                     [x \in (DOMAIN sequence2amount) \cup {seq} |->
                        float_round(Put(sequence2amount, seq, res.val)[x], prec)]
               /\ i' = i + 1
               /\ UNCHANGED <<pc, raised>>
          ELSE /\ pc' = "failed"
               /\ raised' = [kind |-> IF res.status = "SyntaxError"
                                      THEN "FormulaSyntaxError"
                                      ELSE "FormulaReferenceError",
                             sequence |-> seq, python_code |-> code]
               /\ UNCHANGED <<i, sequence2amount>>
    /\ UNCHANGED <<lines, input_sequence2amount, knownAmounts, returned>>

EvalStep ==
    /\ pc = "eval"
    /\ i <= Len(filtered(lines, "computed"))
    /\ LET seq == filtered(lines, "computed")[i]
           code == lines[seq].python_code
           res == safe_eval(code, safe_eval_dict(sequence2amount))
       IN IF res.status = "ok"
          THEN /\ sequence2amount' =
                     Put(sequence2amount, seq, float_round(res.val, prec))
               /\ i' = i + 1
               /\ UNCHANGED <<pc, raised>>
          ELSE /\ pc' = "failed"
               /\ raised' = [kind |-> IF res.status = "SyntaxError"
                                      THEN "FormulaSyntaxError"
                                      ELSE "FormulaReferenceError",
                             sequence |-> seq, python_code |-> code]
               /\ UNCHANGED <<i, sequence2amount>>
    /\ UNCHANGED <<lines, input_sequence2amount, knownAmounts, returned>>

ReturnEarly ==
    /\ pc = "eval"
    /\ i >= Len(filtered(lines, "computed"))
    /\ pc' = "returned"
    /\ returned' = "sequence2amount"
    /\ UNCHANGED <<lines, i, sequence2amount, input_sequence2amount,
                   knownAmounts, raised>>

ReturnCopy ==
    /\ pc = "eval"
    /\ i > Len(filtered(lines, "computed"))
    /\ pc' = "returned"
    /\ returned' = "input_sequence2amount"
    /\ UNCHANGED <<lines, i, sequence2amount, input_sequence2amount,
                   knownAmounts, raised>>

Return ==
    /\ pc = "eval"
    /\ i > Len(filtered(lines, "computed"))
    /\ pc' = "returned"
    /\ returned' = "sequence2amount"
    /\ UNCHANGED <<lines, i, sequence2amount, input_sequence2amount,
                   knownAmounts, raised>>

Next ==
    \/ CreateLine
    \/ WriteSequence
    \/ WriteLine
    \/ Call
    \/ ReconcileStep
    \/ CheckExtraneous
    \/ EvalStep
    \/ Return

Spec == Init /\ [][Next]_vars

\* ---- shorthands for the properties ----
InputSeqs == {s \in DOMAIN lines : lines[s].type = "input"}
ComputedSeqs == {s \in DOMAIN lines : lines[s].type = "computed"}
Ended == pc \in {"returned", "failed"}
ReconcileFailed == pc = "failed" /\ raised.kind \in {"MissingInputLine", "ExtraneousInputLine"}
FormulaFailed == pc = "failed" /\ raised.kind \in {"FormulaSyntaxError", "FormulaReferenceError"}
PastReconcile == pc \in {"eval", "returned"} \/ FormulaFailed
Evaluated == IF PastReconcile THEN ComputedSeqs \cap DOMAIN sequence2amount ELSE {}

TypeOK ==
    /\ DOMAIN lines \subseteq Seqs
    /\ \A s \in DOMAIN lines : lines[s].type \in LineTypes /\ lines[s].python_code \in PythonCodes
    /\ pc \in {"idle", "reconcile", "eval", "returned", "failed"}
    /\ DOMAIN knownAmounts \subseteq Seqs
    /\ DOMAIN input_sequence2amount \subseteq DOMAIN knownAmounts
    /\ returned \in {"none", "sequence2amount", "input_sequence2amount"}

\* v is raw rounded to the nearest multiple of the increment p
IsRounded(v, raw, p) == v % p = 0 /\ 2 * Abs(v - raw) <= p

\* C1: a run in which some input line's sequence is not a key of the supplied
\* mapping never reaches the evaluation of formulas and ends with
\* MissingInputLine, returning no mapping, extra keys or not.
C1_MissingInputLine ==
    /\ PastReconcile => InputSeqs \subseteq DOMAIN knownAmounts
    /\ (Ended /\ ~(InputSeqs \subseteq DOMAIN knownAmounts)) =>
          (pc = "failed" /\ raised.kind = "MissingInputLine" /\ returned = "none")

C1_Witness ==
    /\ pc = "failed"
    /\ raised.kind = "MissingInputLine"
    /\ DOMAIN knownAmounts \ InputSeqs # {}

\* C2: when every input line's sequence is supplied and the supplied mapping
\* has a key that is not an input line's sequence, the run ends with
\* ExtraneousInputLine; a run gets past reconciliation only when the supplied
\* keys are exactly the input lines' sequences.
C2_ExtraneousInputLine ==
    /\ PastReconcile => DOMAIN knownAmounts = InputSeqs
    /\ (Ended /\ InputSeqs \subseteq DOMAIN knownAmounts
              /\ DOMAIN knownAmounts \ InputSeqs # {}) =>
          (pc = "failed" /\ raised.kind = "ExtraneousInputLine" /\ returned = "none")

C2_Witness ==
    /\ pc = "failed"
    /\ raised.kind = "ExtraneousInputLine"
    /\ InputSeqs # {}
    /\ DOMAIN knownAmounts \cap ComputedSeqs # {}

\* C3: on a successful return the keys of the returned mapping are exactly
\* the sequences of all the template's lines.
C3_Completeness ==
    pc = "returned" => DOMAIN sequence2amount = DOMAIN lines

C3_Witness ==
    /\ pc = "returned"
    /\ InputSeqs # {}
    /\ ComputedSeqs # {}

\* C4: on a successful return every input line's amount is the supplied one,
\* neither rounded nor overwritten.
C4_InputPreservation ==
    pc = "returned" =>
        \A s \in InputSeqs : sequence2amount[s] = knownAmounts[s]

C4_Witness ==
    /\ pc = "returned"
    /\ ComputedSeqs # {}
    /\ \E s \in InputSeqs : knownAmounts[s] % prec # 0

\* C5: a computed line is evaluated successfully only if every sequence its
\* formula names is strictly less than its own.
C5_OnlyLowerSequences ==
    \A c \in Evaluated : \A r \in lines[c].python_code.refs : r < c

\* C6 as stated: after any call the supplied mapping has the keys and values
\* it had on entry, and the result is another mapping.
C6_NeverModified ==
    Ended => (sequence2amount = knownAmounts /\ returned # "sequence2amount")

\* C6 amended: the supplied mapping is untouched when reconciliation fails;
\* past reconciliation the supplied entries keep their values, every
\* evaluated computed line is added to the supplied mapping itself, which is
\* the mapping returned, and after a formula error it holds the amounts of
\* the computed lines evaluated before the failing one.
C6_UpdatedInPlace ==
    /\ ReconcileFailed => sequence2amount = knownAmounts
    /\ \A k \in DOMAIN knownAmounts :
          k \in DOMAIN sequence2amount /\ sequence2amount[k] = knownAmounts[k]
    /\ pc = "returned" =>
          /\ returned = "sequence2amount"
          /\ DOMAIN sequence2amount = DOMAIN knownAmounts \cup ComputedSeqs
    /\ FormulaFailed =>
          /\ returned = "none"
          /\ DOMAIN sequence2amount =
                DOMAIN knownAmounts \cup {c \in ComputedSeqs : c < raised.sequence}

C6_Witness ==
    /\ FormulaFailed
    /\ sequence2amount # knownAmounts

\* C7: no saved line is computed with an empty or absent formula, and a
\* save refused with MissingFormula leaves the saved lines as they were.
C7_ComputedHasFormula ==
    /\ [](\A s \in ComputedSeqs : lines[s].python_code.kind \notin {"absent", "empty"})
    /\ [][raised'.kind = "MissingFormula" => lines' = lines]_vars

C7_Witness ==
    /\ raised.kind = "MissingFormula"
    /\ \E s \in InputSeqs : lines[s].python_code.kind = "absent"
    /\ \E s \in InputSeqs : lines[s].python_code.kind = "expr"

\* C8: reconciliation is over before any formula is evaluated: while it runs
\* nothing is stored and no formula error is raised, once evaluation has
\* begun no reconciliation error is raised, and a run that fails in
\* reconciliation leaves the supplied mapping as it was on entry.
C8_ReconcileFirst ==
    /\ [](ReconcileFailed => (sequence2amount = knownAmounts /\ Evaluated = {}))
    /\ [][pc = "reconcile" =>
            /\ sequence2amount' = sequence2amount
            /\ pc' # "returned"
            /\ raised'.kind \notin {"FormulaSyntaxError", "FormulaReferenceError"}]_vars
    /\ [][pc = "eval" =>
            raised'.kind \notin {"MissingInputLine", "ExtraneousInputLine"}]_vars

C8_Witness ==
    /\ ReconcileFailed
    /\ DOMAIN knownAmounts # {}
    /\ \E c \in ComputedSeqs : lines[c].python_code.kind = "bad"

\* C9: computed lines are evaluated one at a time in ascending sequence
\* order, and each stored amount is the rounding, to the one increment, of
\* its formula over the supplied amounts and the rounded amounts of the
\* computed lines before it.
C9_SequentialEvaluation ==
    PastReconcile =>
        /\ \A c \in Evaluated : \A d \in ComputedSeqs : d < c => d \in Evaluated
        /\ pc = "eval" => Cardinality(Evaluated) = i - 1
        /\ pc = "returned" => Evaluated = ComputedSeqs
        /\ \A c \in Evaluated :
              LET refs == lines[c].python_code.refs
                  lit == lines[c].python_code.lit
                  bound == DOMAIN knownAmounts \cup {d \in ComputedSeqs : d < c}
              IN /\ lines[c].python_code.kind = "expr"
                 /\ refs \subseteq bound
                 /\ IsRounded(sequence2amount[c], SumOver(sequence2amount, refs) + lit, prec)

C9_Witness ==
    /\ pc = "returned"
    /\ \E c, d \in ComputedSeqs :
          LET cd == lines[d].python_code
              cc == lines[c].python_code
              rawd == SumOver(sequence2amount, cd.refs) + cd.lit
          IN /\ d < c
             /\ d \in cc.refs
             /\ rawd % prec # 0
             /\ sequence2amount[c] #
                  float_round(SumOver(sequence2amount, cc.refs \ {d}) + rawd + cc.lit, prec)

\* C10: a run that fails on a formula fails at the first computed line, in
\* ascending sequence order, whose formula cannot be evaluated: the lines
\* before it are evaluated, no line from it on is, the error is
\* FormulaSyntaxError for a malformed formula and FormulaReferenceError for
\* an unbound name, and it carries that line's sequence and formula; a run
\* returns only when every formula could be evaluated.
C10_FirstFailingLine ==
    /\ FormulaFailed =>
          LET c == raised.sequence IN
          /\ c \in ComputedSeqs
          /\ raised.python_code = lines[c].python_code
          /\ Evaluated = {d \in ComputedSeqs : d < c}
          /\ raised.kind = "FormulaSyntaxError" <=> lines[c].python_code.kind = "bad"
          /\ raised.kind = "FormulaReferenceError" <=>
                /\ lines[c].python_code.kind = "expr"
                /\ ~(lines[c].python_code.refs \subseteq DOMAIN sequence2amount)
    /\ pc = "returned" =>
          \A c \in ComputedSeqs : lines[c].python_code.kind = "expr"

C10_Witness ==
    /\ FormulaFailed
    /\ \E d \in ComputedSeqs :
          d > raised.sequence /\ lines[d].python_code.kind = "bad"

====
